---- MODULE Spec2Model ----
(***************************************************************************)
(* Model of src/utils/validate_data.py: validate_telco_data(df), the Great *)
(* Expectations gate of the Telco churn pipeline.                          *)
(*                                                                         *)
(* A DataFrame is modelled as the set of its column labels plus a sequence *)
(* of row groups: a row (one cell per column) and the number of            *)
(* consecutive identical copies of it.  No expectation of the suite reads  *)
(* the order of the rows, only cells and row counts.                       *)
(*                                                                         *)
(* A cell is a tagged value: a number, a string or the missing value       *)
(* (None / NaN).  All three tags carry the same fields.                    *)
(***************************************************************************)
EXTENDS Integers, Sequences, FiniteSets, TLC

\* df            the caller's DataFrame, the argument of every call
\* context_mode  the kind of context ge.get_context() builds in this process
\* context       the names held by the stores of the file-backed project
\* history       the outcome of each call made so far, oldest first
VARIABLES df, context_mode, context, history

vars == <<df, context_mode, context, history>>

----------------------------------------------------------------------------
(* Bounds of the explored inputs *)

\* most row groups in a DataFrame
MaxRows == 2
\* most calls of validate_telco_data in one process
MaxCalls == 2
\* copies of the first row in a DataFrame with a large block of equal rows
BigBlock == 19

----------------------------------------------------------------------------
(* Cells *)

Null == [k |-> "null", s |-> "", n |-> 0]
Num(n) == [k |-> "num", s |-> "", n |-> n]
Str(s) == [k |-> "str", s |-> s, n |-> 0]

Columns ==
  {"customerID", "gender", "Partner", "Dependents", "PhoneService",
   "InternetService", "Contract", "tenure", "MonthlyCharges", "TotalCharges"}

\* the strings pandas parses as numbers, among the strings of the inputs
NumericStrings == {"600", "20", "-5"}

ParseNumber(s) ==
  CASE s = "600" -> 600
    [] s = "20" -> 20
    [] s = "-5" -> 0 - 5

\* pd.to_numeric(..., errors="coerce") on one cell
to_numeric(cell) ==
  IF cell.k = "str"
  THEN IF cell.s \in NumericStrings THEN Num(ParseNumber(cell.s)) ELSE Null
  ELSE cell

----------------------------------------------------------------------------
(* The expectations of the suite.  An expectation configuration is its     *)
(* type and its kwargs; kwargs a kind does not take hold a neutral value.  *)

NoKwargs ==
  [column |-> "", column_B |-> "", value_set |-> {},
   has_min |-> FALSE, min_value |-> 0, has_max |-> FALSE, max_value |-> 0,
   or_equal |-> FALSE, mostly |-> 100]

ExpectColumnToExist(column) ==
  [type |-> "expect_column_to_exist",
   kwargs |-> [NoKwargs EXCEPT !.column = column]]

ExpectColumnValuesToNotBeNull(column) ==
  [type |-> "expect_column_values_to_not_be_null",
   kwargs |-> [NoKwargs EXCEPT !.column = column]]

ExpectColumnDistinctValuesToBeInSet(column, value_set) ==
  [type |-> "expect_column_distinct_values_to_be_in_set",
   kwargs |-> [NoKwargs EXCEPT !.column = column, !.value_set = value_set]]

\* min_value only
ExpectColumnValuesToBeAtLeast(column, min_value) ==
  [type |-> "expect_column_values_to_be_between",
   kwargs |-> [NoKwargs EXCEPT !.column = column,
                               !.has_min = TRUE, !.min_value = min_value]]

\* min_value and max_value
ExpectColumnValuesToBeBetween(column, min_value, max_value) ==
  [type |-> "expect_column_values_to_be_between",
   kwargs |-> [NoKwargs EXCEPT !.column = column,
                               !.has_min = TRUE, !.min_value = min_value,
                               !.has_max = TRUE, !.max_value = max_value]]

\* mostly is held in hundredths: mostly=0.95 is 95
ExpectColumnPairValuesAToBeGreaterThanB(column_A, column_B, or_equal, mostly) ==
  [type |-> "expect_column_pair_values_a_to_be_greater_than_b",
   kwargs |-> [NoKwargs EXCEPT !.column = column_A, !.column_B = column_B,
                               !.or_equal = or_equal, !.mostly = mostly]]

expectation1 == ExpectColumnToExist("customerID")
expectation2 == ExpectColumnValuesToNotBeNull("customerID")
expectation3 == ExpectColumnToExist("gender")
expectation4 == ExpectColumnToExist("Partner")
expectation5 == ExpectColumnToExist("Dependents")
expectation6 == ExpectColumnToExist("PhoneService")
expectation7 == ExpectColumnToExist("InternetService")
expectation8 == ExpectColumnToExist("Contract")
expectation9 == ExpectColumnToExist("tenure")
expectation10 == ExpectColumnToExist("MonthlyCharges")
expectation11 == ExpectColumnToExist("TotalCharges")
expectation12 == ExpectColumnDistinctValuesToBeInSet("gender", {"Male", "Female"})
expectation13 == ExpectColumnDistinctValuesToBeInSet("Partner", {"Yes", "No"})
expectation14 == ExpectColumnDistinctValuesToBeInSet("Dependents", {"Yes", "No"})
expectation15 == ExpectColumnDistinctValuesToBeInSet("PhoneService", {"Yes", "No"})
expectation16 ==
  ExpectColumnDistinctValuesToBeInSet("Contract",
                                      {"Month-to-month", "One year", "Two year"})
expectation17 ==
  ExpectColumnDistinctValuesToBeInSet("InternetService",
                                      {"DSL", "Fiber optic", "No"})
expectation18 == ExpectColumnValuesToBeAtLeast("tenure", 0)
expectation19 == ExpectColumnValuesToBeAtLeast("MonthlyCharges", 0)
expectation20 == ExpectColumnValuesToBeAtLeast("TotalCharges", 0)
\* as expectation21, min_value left out
expectation21_max_only ==
  [type |-> "expect_column_values_to_be_between",
   kwargs |-> [NoKwargs EXCEPT !.column = "tenure",
                               !.has_max = TRUE, !.max_value = 120]]
expectation21 == ExpectColumnValuesToBeBetween("tenure", 0, 120)
expectation22 == ExpectColumnValuesToBeBetween("MonthlyCharges", 0, 200)
expectation23 == ExpectColumnValuesToNotBeNull("tenure")
expectation24 == ExpectColumnValuesToNotBeNull("MonthlyCharges")
expectation25 ==
  ExpectColumnPairValuesAToBeGreaterThanB("TotalCharges", "MonthlyCharges",
                                          TRUE, 95)

\* the expectations in the order of the add_expectation calls
added_expectations ==
  <<expectation1, expectation2, expectation3, expectation4, expectation5,
    expectation6, expectation7, expectation8, expectation9, expectation10,
    expectation11, expectation12, expectation13, expectation14, expectation15,
    expectation16, expectation17, expectation18, expectation19, expectation20,
    expectation21, expectation22, expectation23, expectation24, expectation25>>

\* suite.add_expectation appends to the suite's ordered list
add_expectation(expectations, expectation) == Append(expectations, expectation)

RECURSIVE add_all(_, _)
add_all(expectations, pending) ==
  IF pending = <<>>
  THEN expectations
  ELSE add_all(add_expectation(expectations, Head(pending)), Tail(pending))

\* the suite after the 25 add_expectation calls
suite == add_all(<<>>, added_expectations)

----------------------------------------------------------------------------
(* Evaluation of one expectation on a DataFrame.  An evaluation returns    *)
(* success and raised: raised is an exception inside the metric            *)
(* computation, which the validator catches and reports as a result with   *)
(* success false and the exception recorded.                               *)

RECURSIVE row_count(_, _)
\* number of rows in the row groups with the indices I
row_count(rows, I) ==
  IF I = {}
  THEN 0
  ELSE LET i == CHOOSE j \in I : TRUE
       IN rows[i].n + row_count(rows, I \ {i})

Passed == [success |-> TRUE, raised |-> FALSE]
Failed == [success |-> FALSE, raised |-> FALSE]
Raised == [success |-> FALSE, raised |-> TRUE]

Outcome(ok) == IF ok THEN Passed ELSE Failed

\* ExpectColumnToExist: the label is one of the table's columns
column_to_exist(frame, kw) == Outcome(kw.column \in frame.cols)

\* ExpectColumnValuesToNotBeNull: no row holds a missing value
\* (a table without rows passes)
column_values_to_not_be_null(frame, kw) ==
  IF kw.column \notin frame.cols
  THEN Raised
  ELSE LET nulls == {i \in DOMAIN frame.rows : frame.rows[i].cell[kw.column] = Null}
       IN Outcome(row_count(frame.rows, nulls) = 0)

\* as column_distinct_values_to_be_in_set, the missing value kept among the
\* observed values
column_distinct_values_with_missing(frame, kw) ==
  IF kw.column \notin frame.cols
  THEN Raised
  ELSE LET observed == {frame.rows[i].cell[kw.column] : i \in DOMAIN frame.rows}
           expected == {Str(v) : v \in kw.value_set}
       IN Outcome(observed \subseteq expected)

\* ExpectColumnDistinctValuesToBeInSet: the distinct values the column
\* holds, missing values dropped, are a subset of value_set
column_distinct_values_to_be_in_set(frame, kw) ==
  IF kw.column \notin frame.cols
  THEN Raised
  ELSE LET observed == {frame.rows[i].cell[kw.column] : i \in DOMAIN frame.rows} \ {Null}
           expected == {Str(v) : v \in kw.value_set}
       IN Outcome(observed \subseteq expected)

\* as column_values_to_be_between, the bounds excluded
column_values_to_be_strictly_between(frame, kw) ==
  IF kw.column \notin frame.cols
  THEN Raised
  ELSE LET nonnull == {frame.rows[i].cell[kw.column] : i \in DOMAIN frame.rows} \ {Null}
       IN IF \E v \in nonnull : v.k = "str"
          THEN Raised
          ELSE Outcome(\A v \in nonnull :
                         /\ kw.has_min => v.n > kw.min_value
                         /\ kw.has_max => v.n < kw.max_value)

\* ExpectColumnValuesToBeBetween: every value that is not missing lies in
\* [min_value, max_value], both ends inclusive; comparing a string cell
\* with the numeric bounds raises TypeError
column_values_to_be_between(frame, kw) ==
  IF kw.column \notin frame.cols
  THEN Raised
  ELSE LET nonnull == {frame.rows[i].cell[kw.column] : i \in DOMAIN frame.rows} \ {Null}
       IN IF \E v \in nonnull : v.k = "str"
          THEN Raised
          ELSE Outcome(\A v \in nonnull :
                         /\ kw.has_min => v.n >= kw.min_value
                         /\ kw.has_max => v.n <= kw.max_value)

\* A >= B (or A > B) on one row; a comparison with NaN is false
a_greater_than_b(a, b, or_equal) ==
  /\ a.k = "num"
  /\ b.k = "num"
  /\ IF or_equal THEN a.n >= b.n ELSE a.n > b.n

\* as column_pair_values_a_to_be_greater_than_b, with
\* ignore_row_if="either_value_is_missing"
column_pair_values_ignoring_either_missing(frame, kw) ==
  IF kw.column \notin frame.cols \/ kw.column_B \notin frame.cols
  THEN Raised
  ELSE LET A(i) == frame.rows[i].cell[kw.column]
           B(i) == frame.rows[i].cell[kw.column_B]
           filtered == {i \in DOMAIN frame.rows : A(i) # Null /\ B(i) # Null}
           unexpected == {i \in filtered : ~a_greater_than_b(A(i), B(i), kw.or_equal)}
           filtered_row_count == row_count(frame.rows, filtered)
           unexpected_count == row_count(frame.rows, unexpected)
       IN IF \E i \in filtered : A(i).k = "str" \/ B(i).k = "str"
          THEN Raised
          ELSE Outcome(\/ filtered_row_count = 0
                       \/ 100 * (filtered_row_count - unexpected_count)
                            >= kw.mostly * filtered_row_count)

\* ExpectColumnPairValuesAToBeGreaterThanB with the default
\* ignore_row_if="both_values_are_missing": the rows where both values are
\* missing are dropped, the others are compared; success when no row is
\* left or (rows left - unexpected rows) / rows left >= mostly
column_pair_values_a_to_be_greater_than_b(frame, kw) ==
  IF kw.column \notin frame.cols \/ kw.column_B \notin frame.cols
  THEN Raised
  ELSE LET A(i) == frame.rows[i].cell[kw.column]
           B(i) == frame.rows[i].cell[kw.column_B]
           filtered == {i \in DOMAIN frame.rows : ~(A(i) = Null /\ B(i) = Null)}
           unexpected == {i \in filtered : ~a_greater_than_b(A(i), B(i), kw.or_equal)}
           filtered_row_count == row_count(frame.rows, filtered)
           unexpected_count == row_count(frame.rows, unexpected)
       IN IF \E i \in filtered : A(i).k = "str" \/ B(i).k = "str"
          THEN Raised
          ELSE Outcome(\/ filtered_row_count = 0
                       \/ 100 * (filtered_row_count - unexpected_count)
                            >= kw.mostly * filtered_row_count)

\* the legacy path: ge_df.expect_column_values_to_be_in_set(column, values)
\* checks each row, missing values left out, and passes when no checked
\* row holds a value outside the set
expect_column_values_to_be_in_set(frame, column, value_set) ==
  IF column \notin frame.cols
  THEN Raised
  ELSE LET checked == {i \in DOMAIN frame.rows : frame.rows[i].cell[column] # Null}
           unexpected == {i \in checked :
                            \A v \in value_set : frame.rows[i].cell[column] # Str(v)}
       IN Outcome(row_count(frame.rows, unexpected) = 0)

evaluate(frame, expectation) ==
  CASE expectation.type = "expect_column_to_exist" ->
         column_to_exist(frame, expectation.kwargs)
    [] expectation.type = "expect_column_values_to_not_be_null" ->
         column_values_to_not_be_null(frame, expectation.kwargs)
    [] expectation.type = "expect_column_distinct_values_to_be_in_set" ->
         column_distinct_values_to_be_in_set(frame, expectation.kwargs)
    [] expectation.type = "expect_column_values_to_be_between" ->
         column_values_to_be_between(frame, expectation.kwargs)
    [] expectation.type = "expect_column_pair_values_a_to_be_greater_than_b" ->
         column_pair_values_a_to_be_greater_than_b(frame, expectation.kwargs)

----------------------------------------------------------------------------
(* batch.validate(suite) *)

\* one entry of results["results"]
validation_result(frame, expectation) ==
  LET evaluated == evaluate(frame, expectation)
  IN [success |-> evaluated.success,
      expectation_config |-> expectation,
      exception_info |-> evaluated.raised]

RECURSIVE results_of(_, _)
results_of(frame, expectations) ==
  IF expectations = <<>>
  THEN <<>>
  ELSE <<validation_result(frame, Head(expectations))>>
         \o results_of(frame, Tail(expectations))

RECURSIVE results_until_failure(_, _)
results_until_failure(frame, expectations) ==
  IF expectations = <<>>
  THEN <<>>
  ELSE LET r == validation_result(frame, Head(expectations))
       IN IF r.success
          THEN <<r>> \o results_until_failure(frame, Tail(expectations))
          ELSE <<r>>

\* as graph_validate, stopping at the first expectation that fails
graph_validate_short_circuit(frame, expectations) ==
  results_until_failure(frame, expectations)

\* The validator resolves the metrics of all expectations first: those whose
\* metrics raised get their result at once and leave the list, the others
\* are validated afterwards, each group in suite order.  Every expectation
\* of the suite gets exactly one result; a failure stops nothing.
graph_validate(frame, expectations) ==
  LET evrs == results_of(frame, expectations)
      raised(r) == r.exception_info
      resolved(r) == ~r.exception_info
  IN SelectSeq(evrs, raised) \o SelectSeq(evrs, resolved)

\* as calc_validation_statistics, success when some expectation succeeded
calc_validation_statistics_any(results) ==
  LET successful(r) == r.success
      evaluated_expectations == Len(results)
      successful_expectations == Len(SelectSeq(results, successful))
  IN [evaluated_expectations |-> evaluated_expectations,
      successful_expectations |-> successful_expectations,
      success |-> successful_expectations > 0]

\* the statistics of a run: success when every evaluated expectation succeeded
calc_validation_statistics(results) ==
  LET successful(r) == r.success
      evaluated_expectations == Len(results)
      successful_expectations == Len(SelectSeq(results, successful))
  IN [evaluated_expectations |-> evaluated_expectations,
      successful_expectations |-> successful_expectations,
      success |-> successful_expectations = evaluated_expectations]

batch_validate(frame, expectations) ==
  LET results == graph_validate(frame, expectations)
  IN [results |-> results,
      success |-> calc_validation_statistics(results).success]

----------------------------------------------------------------------------
(* The data context.  ge.get_context() without arguments builds a new      *)
(* context on every call: a file-backed one when the working directory     *)
(* holds a GX project, whose stores are the project's files, and an        *)
(* ephemeral one with empty in-memory stores otherwise.  The variable      *)
(* context is the content of the project's stores.                         *)

ContextModes == {"ephemeral", "file"}

get_context(mode, project) == IF mode = "file" THEN project ELSE {}

\* the names the call registers, in the order of the calls that add them
registered_names ==
  << <<"data_source", "pandas">>,
     <<"data_asset", "telco_churn_data">>,
     <<"batch_definition", "telco_churn_data_whole_dataframe">>,
     <<"suite", "telco_churn_data_suite">> >>

RECURSIVE register(_, _)
\* add the names one after the other; adding a name the context already
\* holds raises, and the names after it are not added
register(store, names) ==
  IF names = <<>>
  THEN [store |-> store, raised |-> FALSE]
  ELSE IF Head(names) \in store
       THEN [store |-> store, raised |-> TRUE]
       ELSE register(store \cup {Head(names)}, Tail(names))

----------------------------------------------------------------------------
(* validate_telco_data(df) *)

\* df["TotalCharges"] = pd.to_numeric(df["TotalCharges"], errors="coerce"):
\* assigns the coerced column into the DataFrame it was given
coerce_total_charges(frame) ==
  [frame EXCEPT !.rows =
     [i \in DOMAIN frame.rows |->
        [frame.rows[i] EXCEPT !.cell["TotalCharges"] = to_numeric(@)]]]

\* seq[start:], start counted from 0
slice_from(seq, start) == SubSeq(seq, start + 1, Len(seq))

\* what the loop appends for a failed result
failed_entry(r) == r.expectation_config.type

RECURSIVE failed_entries(_)
failed_entries(results) ==
  IF results = <<>>
  THEN <<>>
  ELSE (IF ~Head(results).success THEN <<failed_entry(Head(results))>> ELSE <<>>)
         \o failed_entries(Tail(results))

NoReport ==
  [success |-> FALSE, failed_expectations |-> <<>>, results |-> <<>>,
   suite_size |-> 0, total_checks |-> 0, passed_checks |-> 0,
   failed_checks |-> 0]

raise(error, before) ==
  [status |-> "raised", error |-> error, df_before |-> before] @@ NoReport

\* the summary of the results and the returned pair
report(before, results) ==
  LET successful(r) == r.success
      failed_expectations == failed_entries(slice_from(results.results, 0))
      total_checks == Len(results.results)
      passed_checks == Len(SelectSeq(slice_from(results.results, 0), successful))
  IN [status |-> "returned", error |-> "", df_before |-> before,
      success |-> results.success,
      failed_expectations |-> failed_expectations,
      results |-> results.results,
      suite_size |-> Len(suite),
      total_checks |-> total_checks,
      passed_checks |-> passed_checks,
      failed_checks |-> total_checks - passed_checks]

\* one call: the DataFrame and the project stores it leaves, and its outcome
call(frame, mode, project) ==
  IF "TotalCharges" \notin frame.cols
  THEN [df |-> frame, context |-> project, outcome |-> raise("KeyError", frame)]
  ELSE LET coerced == coerce_total_charges(frame)
           added == register(get_context(mode, project), registered_names)
           stores == IF mode = "file" THEN added.store ELSE project
       IN IF added.raised
          THEN [df |-> coerced, context |-> stores,
                outcome |-> raise("DataContextError", frame)]
          ELSE [df |-> coerced, context |-> stores,
                outcome |-> report(frame, batch_validate(coerced, suite))]

validate_telco_data ==
  /\ Len(history) < MaxCalls
  /\ LET called == call(df, context_mode, context)
     IN /\ df' = called.df
        /\ context' = called.context
        /\ history' = Append(history, called.outcome)
  /\ UNCHANGED context_mode

----------------------------------------------------------------------------
(* The DataFrames the caller passes *)

CleanRow ==
  [c \in Columns |->
     CASE c = "customerID" -> Str("7590-VHVEG")
       [] c = "gender" -> Str("Male")
       [] c = "Partner" -> Str("Yes")
       [] c = "Dependents" -> Str("No")
       [] c = "PhoneService" -> Str("Yes")
       [] c = "InternetService" -> Str("DSL")
       [] c = "Contract" -> Str("Month-to-month")
       [] c = "tenure" -> Num(12)
       [] c = "MonthlyCharges" -> Num(50)
       [] c = "TotalCharges" -> Str("600")]

\* a row differs from the clean row in one cell ...
CellChanges ==
  << <<"customerID", Null>>,
     <<"gender", Str("Unknown")>>, <<"gender", Null>>,
     <<"Partner", Str("Maybe")>>,
     <<"Dependents", Str("yes")>>,
     <<"PhoneService", Null>>,
     <<"InternetService", Str("Cable")>>,
     <<"Contract", Str("Weekly")>>,
     <<"tenure", Num(0 - 5)>>, <<"tenure", Num(0)>>, <<"tenure", Num(120)>>,
     <<"tenure", Num(121)>>, <<"tenure", Null>>, <<"tenure", Str("abc")>>,
     <<"MonthlyCharges", Num(0 - 1)>>, <<"MonthlyCharges", Num(0)>>,
     <<"MonthlyCharges", Num(200)>>, <<"MonthlyCharges", Num(201)>>,
     <<"MonthlyCharges", Null>>, <<"MonthlyCharges", Str("abc")>>,
     <<"TotalCharges", Str(" ")>>, <<"TotalCharges", Str("20")>>,
     <<"TotalCharges", Str("-5")>>, <<"TotalCharges", Null>> >>

\* ... or in both charges: <<TotalCharges, MonthlyCharges>>
ChargeChanges ==
  << <<Null, Null>>, <<Str(" "), Null>>, <<Str("20"), Num(20)>>,
     <<Num(600), Num(201)>> >>

RowPool ==
  <<CleanRow>>
    \o [k \in DOMAIN CellChanges |->
          [CleanRow EXCEPT ![CellChanges[k][1]] = CellChanges[k][2]]]
    \o [k \in DOMAIN ChargeChanges |->
          [CleanRow EXCEPT !["TotalCharges"] = ChargeChanges[k][1],
                           !["MonthlyCharges"] = ChargeChanges[k][2]]]

\* the rows of a table, as indices into RowPool in ascending order
RowChoices ==
  {s \in UNION {[1..n -> DOMAIN RowPool] : n \in 0..MaxRows} :
     \A i \in DOMAIN s : \A j \in DOMAIN s : i < j => s[i] <= s[j]}

\* the first row of a table may stand for a block of equal rows
BlockSizes == {1, BigBlock - 1, BigBlock}

\* the columns a table may lack
AbsentChoices ==
  {{}} \cup {{c} : c \in Columns}
       \cup {{"gender", "Partner"}, {"tenure", "MonthlyCharges"},
             {"customerID", "TotalCharges"}}

DataFrame(absent, choice, block) ==
  [cols |-> Columns \ absent,
   rows |-> [i \in DOMAIN choice |->
               [cell |-> [c \in Columns |->
                            IF c \in absent THEN Null ELSE RowPool[choice[i]][c]],
                n |-> IF i = 1 THEN block ELSE 1]]]

Init ==
  /\ \E absent \in AbsentChoices, choice \in RowChoices, block \in BlockSizes :
       /\ absent # {} => Len(choice) <= 1
       /\ choice = <<>> => block = 1
       /\ df = DataFrame(absent, choice, block)
  /\ context_mode \in ContextModes
  /\ context = {}
  /\ history = <<>>

Next == validate_telco_data

Spec == Init /\ [][Next]_vars

----------------------------------------------------------------------------
(* Properties *)

Returned(k) == history[k].status = "returned"

\* the result a returned call k reports for an expectation of the suite
ResultFor(k, expectation) ==
  LET results == history[k].results
  IN results[CHOOSE i \in DOMAIN results :
               results[i].expectation_config = expectation]

\* the cells of a column in the DataFrame passed to call k
CellsBefore(k, column) ==
  {history[k].df_before.rows[i].cell[column] :
     i \in DOMAIN history[k].df_before.rows}

NonExistenceRules ==
  {suite[i] : i \in {j \in DOMAIN suite : suite[j].type # "expect_column_to_exist"}}

RuleColumns(expectation) ==
  {expectation.kwargs.column, expectation.kwargs.column_B} \ {""}

\* C1: for every dataset, also one that lacks a column a rule names, the
\* first call in a process returns a (success, failed list) pair instead
\* of raising; a non-Existence rule on an absent column is reported as
\* failed, and every rule of the suite is reported.
C1_ReturnsForEveryDataset ==
  Len(history) >= 1 =>
    /\ Returned(1)
    /\ \A i \in DOMAIN suite :
         \E j \in DOMAIN history[1].results :
           history[1].results[j].expectation_config = suite[i]
    /\ \A e \in NonExistenceRules :
         ~(RuleColumns(e) \subseteq history[1].df_before.cols)
            => ~ResultFor(1, e).success

\* C2: the caller's dataset is only read: after a call every cell of every
\* column has the value and type it had before the call.
C2_DatasetOnlyRead ==
  Len(history) >= 1 => df = history[Len(history)].df_before

\* the identity of an expectation: kind + column, or kind + column pair
Identity(expectation) ==
  <<expectation.type, expectation.kwargs.column, expectation.kwargs.column_B>>

\* the failed results of a returned call, in the order of the report
FailedResults(k) ==
  LET failed(r) == ~r.success
  IN SelectSeq(history[k].results, failed)

\* C3: the failed list has one entry per failed expectation and each entry
\* is the identity (kind + column, or kind + column pair) of its
\* expectation: the entries of two failed rules of the same kind on
\* different columns differ.
C3_FailedListHoldsIdentities ==
  \A k \in DOMAIN history :
    Returned(k) =>
      LET F == FailedResults(k)
          failed_expectations == history[k].failed_expectations
      IN /\ Len(failed_expectations) = Len(F)
         /\ \A i \in DOMAIN F : \A j \in DOMAIN F :
              Identity(F[i].expectation_config) # Identity(F[j].expectation_config)
                => failed_expectations[i] # failed_expectations[j]

\* C4: the success flag a call returns is the conjunction of the success
\* flags of its per-expectation results, and it is true exactly when
\* passed_checks = total_checks.
C4_SuccessIsConjunction ==
  \A k \in DOMAIN history :
    Returned(k) =>
      /\ history[k].success
           <=> \A i \in DOMAIN history[k].results : history[k].results[i].success
      /\ history[k].success
           <=> history[k].passed_checks = history[k].total_checks

\* a call returned failure with some checks passed
C4_Witness ==
  \E k \in DOMAIN history :
    /\ Returned(k)
    /\ ~history[k].success
    /\ history[k].passed_checks > 0
    /\ history[k].passed_checks < history[k].total_checks

\* C5: no short-circuiting: a call reports one result per expectation added
\* to the suite, 25 of them, also when an early expectation fails (the 25
\* expectations differ, so 25 results that cover them all hold one each).
C5_OneResultPerExpectation ==
  \A k \in DOMAIN history :
    Returned(k) =>
      /\ history[k].total_checks = history[k].suite_size
      /\ history[k].total_checks = 25
      /\ Len(history[k].results) = Len(suite)
      /\ {history[k].results[j].expectation_config : j \in DOMAIN history[k].results}
           = {suite[i] : i \in DOMAIN suite}

\* the first expectation of the suite failed and 25 results were reported
C5_Witness ==
  \E k \in DOMAIN history :
    /\ Returned(k)
    /\ ~ResultFor(k, suite[1]).success
    /\ history[k].total_checks = 25
    /\ history[k].passed_checks > 0

\* C6: a second call in the same process on the same dataset returns what
\* the first call returned: it does not raise and gives the same success
\* flag and the same failed list.
C6_SecondCallSameOutcome ==
  (Len(history) >= 2 /\ Returned(1)) =>
    /\ Returned(2)
    /\ history[2].success = history[1].success
    /\ history[2].failed_expectations = history[1].failed_expectations

\* the charges of row group i of the DataFrame passed to call k, as numbers
\* where they are numeric: <<TotalCharges, MonthlyCharges>>
ChargesOf(k, i) ==
  LET row == history[k].df_before.rows[i]
  IN <<to_numeric(row.cell["TotalCharges"]), row.cell["MonthlyCharges"]>>

BothCharges(k) ==
  {"TotalCharges", "MonthlyCharges"} \subseteq history[k].df_before.cols

TotalAtLeastMonthly(k, i) ==
  /\ ChargesOf(k, i)[1].k = "num"
  /\ ChargesOf(k, i)[2].k = "num"
  /\ ChargesOf(k, i)[1].n >= ChargesOf(k, i)[2].n

MonthlyChargesNumeric(k) == \A v \in CellsBefore(k, "MonthlyCharges") : v.k # "str"

RangeRules == {expectation18, expectation19, expectation20, expectation21, expectation22}

\* the values a Range rule compares: the cells of the column that are not
\* missing, TotalCharges after its coercion
RangeValues(k, column) ==
  (IF column = "TotalCharges"
   THEN {to_numeric(v) : v \in CellsBefore(k, column)}
   ELSE CellsBefore(k, column)) \ {Null}

InRange(v, kw) ==
  /\ v.k = "num"
  /\ kw.has_min => v.n >= kw.min_value
  /\ kw.has_max => v.n <= kw.max_value

ValueSetRules ==
  {expectation12, expectation13, expectation14, expectation15, expectation16,
   expectation17}

\* C9: every ValueSet rule of the suite has the outcome of the per-row
\* membership check of the legacy path on the same dataset, and missing
\* values alone make neither of them fail.
C9_DistinctSubsetMatchesPerRow ==
  \A k \in DOMAIN history :
    Returned(k) =>
      \A e \in ValueSetRules :
        /\ ResultFor(k, e).success
             <=> expect_column_values_to_be_in_set(history[k].df_before,
                                                   e.kwargs.column,
                                                   e.kwargs.value_set).success
        /\ (/\ e.kwargs.column \in history[k].df_before.cols
            /\ CellsBefore(k, e.kwargs.column) \subseteq {Null})
             => ResultFor(k, e).success

\* a column with a missing value and an allowed value passes, another
\* column with a value outside its set fails
C9_Witness ==
  \E k \in DOMAIN history :
    /\ Returned(k)
    /\ {Null, Str("Male")} \subseteq CellsBefore(k, "gender")
    /\ ResultFor(k, expectation12).success
    /\ Str("Maybe") \in CellsBefore(k, "Partner")
    /\ ~ResultFor(k, expectation13).success

HasNegative(k, column) ==
  /\ column \in history[k].df_before.cols
  /\ \E v \in CellsBefore(k, column) : v.k = "num" /\ v.n < 0

\* C10: when the min-only Range rule of tenure (MonthlyCharges) fails, the
\* min-and-max Range rule of the same column fails too, so a negative
\* tenure or MonthlyCharges value gives at least two entries in the failed
\* list.
C10_SubsumedRangeRulesFailTogether ==
  \A k \in DOMAIN history :
    Returned(k) =>
      /\ ~ResultFor(k, expectation18).success => ~ResultFor(k, expectation21).success
      /\ ~ResultFor(k, expectation19).success => ~ResultFor(k, expectation22).success
      /\ (HasNegative(k, "tenure") \/ HasNegative(k, "MonthlyCharges"))
           => Len(history[k].failed_expectations) >= 2

\* one negative tenure value and nothing else wrong: exactly the two tenure
\* Range rules are in the failed list
C10_Witness ==
  \E k \in DOMAIN history :
    /\ Returned(k)
    /\ HasNegative(k, "tenure")
    /\ ~ResultFor(k, expectation18).success
    /\ ~ResultFor(k, expectation21).success
    /\ history[k].failed_expectations =
         <<"expect_column_values_to_be_between", "expect_column_values_to_be_between">>

====
